---- MODULE Spec2Model ----
(***************************************************************************)
(* askgpt: a file-backed conversation manager (src/askgpt.py).             *)
(*                                                                         *)
(* The state is the set of files the script keeps under ~/.askgpt and      *)
(* under each workspace, plus the local variables of every running         *)
(* invocation of the script.  Each command of main() is one action; the    *)
(* interactive loop and the file-input command are split at their          *)
(* blocking points (input() and the model-client call).                    *)
(*                                                                         *)
(* first_run_install_check is taken as passed (the script is installed),   *)
(* so it reads nothing from stdin.  A process that ended, by return, by    *)
(* sys.exit or by an uncaught exception, is at "Done"; result.status and   *)
(* result.via tell how it ended.                                           *)
(*                                                                         *)
(* Strings that the code strips, joins or compares (input lines, message   *)
(* contents, the EOF word) are sequences of characters.  A file is <<>>    *)
(* when it does not exist and <<content>> when it does.                    *)
(***************************************************************************)
EXTENDS Integers, Sequences, FiniteSets, TLC

(* ----------------------------- bounds --------------------------------- *)
\* commands (invocations of main) in one behaviour
MaxCmds == 2
\* lines that the invocations of one behaviour read from stdin, in total
MaxInput == 3
\* lines accumulated in user_lines before the sentinel
MaxLines == 2

(* ------------------------ program constants --------------------------- *)
DEFAULT_MODEL == "gpt-4o"
DEFAULT_EOF == <<"E", "O", "F">>
master_name == "master_session"
None == "None"

(* ------------------------- input alphabets ---------------------------- *)
Procs == {"p1", "p2"}
\* the invocations that run in the one-command-at-a-time specification
SeqProcs == {"p1"}
\* session names given on the command line; " s1" carries a leading blank
SessionArgs == {"master_session", "s1", " s1"}
Workspaces == {"w1", "w2"}
DefaultDir == "default"
Dirs == {DefaultDir} \cup Workspaces
SessionModelArgs == {"m2"}
GlobalModelArgs == {"m1"}
EofArgs == {<<"a", " ">>}
Whitespace == {" ", "\n"}
\* lines that input() can return: blank, ordinary (one with a trailing
\* blank, one that is the alternative EOF word) and the default sentinel,
\* bare and padded
InputLines ==
    { <<>>, <<" ">>, <<"a">>, <<"b", " ">>, DEFAULT_EOF, <<" ">> \o DEFAULT_EOF }
Replies == { <<"r">> }
\* the file named by -f: missing (<<>>), empty, or holding text
InputFiles == { <<>>, << <<>> >>, << <<"a", "\n">> >> }
Failures == {"MissingCredential", "UpstreamFailure"}

(* ------------------------- string functions --------------------------- *)
RECURSIVE LStrip(_)
LStrip(s) ==
    IF s # <<>> /\ Head(s) \in Whitespace THEN LStrip(Tail(s)) ELSE s

RECURSIVE RStrip(_)
RStrip(s) ==
    IF s # <<>> /\ s[Len(s)] \in Whitespace
    THEN RStrip(SubSeq(s, 1, Len(s) - 1))
    ELSE s

\* str.strip()
Strip(s) == RStrip(LStrip(s))

\* str.strip() on the session names of SessionArgs
StripName(n) == IF n = " s1" THEN "s1" ELSE n

\* "\n".join(lines)
RECURSIVE Join(_)
Join(lines) ==
    IF lines = <<>> THEN <<>>
    ELSE IF Len(lines) = 1 THEN lines[1]
    ELSE lines[1] \o <<"\n">> \o Join(Tail(lines))

Msg(r, c) == [role |-> r, content |-> c]

(* --------------------------- message rendering ------------------------ *)
\* mutant: a system message is printed as a user block
RECURSIVE display_with_system(_)
display_with_system(messages) ==
    IF messages = <<>> THEN <<>>
    ELSE LET msg == Head(messages)
             rest == display_with_system(Tail(messages))
         IN  IF msg.role = "assistant"
             THEN <<[marker |-> "[GPT]", text |-> Strip(msg.content)]>> \o rest
             ELSE <<[marker |-> "[USER]", text |-> Strip(msg.content)]>> \o rest

\* display_current_session_custom_format: one block per user or assistant
\* message, in order (a marker line, then the stripped content); system
\* messages print nothing
RECURSIVE display_current_session_custom_format(_)
display_current_session_custom_format(messages) ==
    IF messages = <<>> THEN <<>>
    ELSE LET msg == Head(messages)
             rest == display_current_session_custom_format(Tail(messages))
         IN  IF msg.role = "assistant"
             THEN <<[marker |-> "[GPT]", text |-> Strip(msg.content)]>> \o rest
             ELSE IF msg.role = "user"
             THEN <<[marker |-> "[USER]", text |-> Strip(msg.content)]>> \o rest
             ELSE rest

(* ------------------------------- state -------------------------------- *)
VARIABLES
    sessions,              \* [Dirs -> [SessionArgs -> <<>> or <<record>>]]: *.json
    sdirs,                 \* the sessions directories that exist
    current_session_file,  \* CURRENT_SESSION_FILE: <<>> or <<raw name>>
    workspace_conf,        \* WORKSPACE_CONF: <<>> or <<path>>
    workspaces_list,       \* WORKSPACES_LIST: <<>> or <<list of paths>>
    model_conf,            \* MODEL_CONF: <<>> or <<model>>
    eof_conf,              \* EOF_CONF: <<>> or <<word>>
    pc,                    \* per invocation: where the script stands
    sessionname,           \* per invocation: local sessionname
    data,                  \* per invocation: local data (model, messages)
    user_lines,            \* per invocation: local user_lines
    no_question_asked_yet, \* per invocation: local flag
    eof_word,              \* per invocation: local eof_word of main
    line,                  \* per invocation: local line, the last one read
    nread,                 \* lines read from stdin so far
    result,                \* per invocation: command, exit status, output
    ncmds                  \* commands started so far

vars == <<sessions, sdirs, current_session_file, workspace_conf,
          workspaces_list, model_conf, eof_conf, pc, sessionname, data,
          user_lines, no_question_asked_yet, eof_word, line, nread, result,
          ncmds>>

(* -------------------------- session records --------------------------- *)
\* a record as json.dump writes it
DictRecord(model, messages) ==
    [kind |-> "dict", model |-> <<model>>, messages |-> messages]
\* a record stored as a bare list of messages
ListRecord(messages) == [kind |-> "list", model |-> <<>>, messages |-> messages]
\* a structured record without a "model" key
NoModelRecord(messages) ==
    [kind |-> "dict", model |-> <<>>, messages |-> messages]

NoData == [model |-> "", messages |-> <<>>]

(* ---------------------------- config store ---------------------------- *)
\* ensure_directories: the value of EOF_CONF after it ran
ensure_directories == IF eof_conf = <<>> THEN <<DEFAULT_EOF>> ELSE eof_conf

\* load_eof_word, read after ensure_directories
load_eof_word ==
    IF ensure_directories # <<>> THEN Strip(ensure_directories[1])
    ELSE DEFAULT_EOF

get_current_session ==
    IF current_session_file # <<>> /\ StripName(current_session_file[1]) # ""
    THEN StripName(current_session_file[1])
    ELSE None

get_default_model ==
    IF model_conf # <<>> THEN model_conf[1] ELSE DEFAULT_MODEL

get_workspace_path ==
    IF workspace_conf # <<>> /\ workspace_conf[1] # ""
    THEN workspace_conf[1]
    ELSE None

\* mutant: the workspace is not consulted
get_sessions_dir_ignores_workspace == DefaultDir

\* the directory get_sessions_dir returns (and creates when missing)
get_sessions_dir ==
    IF get_workspace_path # None THEN get_workspace_path ELSE DefaultDir

(* ---------------------------- session store --------------------------- *)
\* S is the content of every sessions directory
session_exists(S, name) == S[get_sessions_dir][name] # <<>>

\* mutant: a record without a model gets the built-in model
load_session_builtin_model(S, name) ==
    LET sf == S[get_sessions_dir][name]
    IN  IF sf # <<>>
        THEN IF sf[1].kind = "list" \/ sf[1].model = <<>>
             THEN [model |-> DEFAULT_MODEL, messages |-> sf[1].messages]
             ELSE [model |-> sf[1].model[1], messages |-> sf[1].messages]
        ELSE [model |-> get_default_model, messages |-> <<>>]

load_session(S, name) ==
    LET sf == S[get_sessions_dir][name]
    IN  IF sf # <<>>
        THEN IF sf[1].kind = "list" \/ sf[1].model = <<>>
             THEN [model |-> get_default_model, messages |-> sf[1].messages]
             ELSE [model |-> sf[1].model[1], messages |-> sf[1].messages]
        ELSE [model |-> get_default_model, messages |-> <<>>]

save_session(S, name, d) ==
    [S EXCEPT ![get_sessions_dir][name] = <<DictRecord(d.model, d.messages)>>]

\* mutant: the new record gets the built-in model, whatever model.conf says
create_session_silent_builtin(S, name) ==
    save_session(S, name, [model |-> DEFAULT_MODEL, messages |-> <<>>])

create_session_silent(S, name) ==
    save_session(S, name, [model |-> get_default_model, messages |-> <<>>])

\* mutant: the pointer that is set is ignored
ensure_current_session_ignores_pointer ==
    [name |-> master_name,
     sessions |-> IF ~session_exists(sessions, master_name)
                  THEN create_session_silent(sessions, master_name)
                  ELSE sessions,
     current_session_file |-> <<master_name>>,
     sdirs |-> sdirs \cup {get_sessions_dir}]

\* mutant: master_session is created without the test of line 115
ensure_current_session_overwrites ==
    LET sess == get_current_session
    IN  IF sess = None
        THEN [name |-> master_name,
              sessions |-> create_session_silent(sessions, master_name),
              current_session_file |-> <<master_name>>,
              sdirs |-> sdirs \cup {get_sessions_dir}]
        ELSE [name |-> sess,
              sessions |-> sessions,
              current_session_file |-> current_session_file,
              sdirs |-> sdirs]

\* ensure_current_session: the name it returns, and the session files and
\* the pointer file it leaves
ensure_current_session ==
    LET sess == get_current_session
    IN  IF sess = None
        THEN [name |-> master_name,
              sessions |-> IF ~session_exists(sessions, master_name)
                           THEN create_session_silent(sessions, master_name)
                           ELSE sessions,
              current_session_file |-> <<master_name>>,
              sdirs |-> sdirs \cup {get_sessions_dir}]
        ELSE [name |-> sess,
              sessions |-> sessions,
              current_session_file |-> current_session_file,
              sdirs |-> sdirs]

(* ------------------------- invocation plumbing ------------------------ *)
\* what an invocation leaves for its caller: the command and its argument,
\* the exit status, the session name it resolved or read, the transcript
\* and the structured text it printed, and the statement that ended it
Result(cmd, arg, status, sess, out, dump) ==
    [cmd |-> cmd, arg |-> arg, status |-> status, sess |-> sess,
     out |-> out, dump |-> dump, via |-> "return"]

\* main() is entered: the invocation p is not running, and one more command
\* of the behaviour's budget is used
Begin(p) ==
    /\ pc[p] \in {"Idle", "Done"}
    /\ ncmds < MaxCmds
    /\ ncmds' = ncmds + 1
    /\ UNCHANGED nread

\* the process ends (return from main, sys.exit or an uncaught exception):
\* its locals are gone, its exit status and output remain
Exit(p, res) ==
    /\ pc' = [pc EXCEPT ![p] = "Done"]
    /\ sessionname' = [sessionname EXCEPT ![p] = None]
    /\ data' = [data EXCEPT ![p] = NoData]
    /\ user_lines' = [user_lines EXCEPT ![p] = <<>>]
    /\ no_question_asked_yet' = [no_question_asked_yet EXCEPT ![p] = TRUE]
    /\ eof_word' = [eof_word EXCEPT ![p] = <<>>]
    /\ line' = [line EXCEPT ![p] = <<>>]
    /\ result' = [result EXCEPT ![p] = res]

(* ------------------------- session commands --------------------------- *)
\* mutant: the test of line 191 is missing
create_session_overwrites(p, name) ==
    /\ Begin(p)
    /\ eof_conf' = ensure_directories
    /\ sdirs' = sdirs \cup {get_sessions_dir}
    /\ sessions' = create_session_silent(sessions, name)
    /\ current_session_file' = <<name>>
    /\ Exit(p, Result("create", name,
                      IF session_exists(sessions, name) THEN "AlreadyExists" ELSE "ok",
                      None, <<>>, <<>>))
    /\ UNCHANGED <<workspace_conf, workspaces_list, model_conf>>

\* -c sessionname
create_session(p, name) ==
    /\ Begin(p)
    /\ eof_conf' = ensure_directories
    /\ sdirs' = sdirs \cup {get_sessions_dir}
    /\ IF session_exists(sessions, name)
       THEN /\ UNCHANGED <<sessions, current_session_file>>
            /\ Exit(p, Result("create", name, "AlreadyExists", None, <<>>, <<>>))
       ELSE /\ sessions' = create_session_silent(sessions, name)
            /\ current_session_file' = <<name>>
            /\ Exit(p, Result("create", name, "ok", None, <<>>, <<>>))
    /\ UNCHANGED <<workspace_conf, workspaces_list, model_conf>>

\* -s sessionname
switch_session(p, name) ==
    /\ Begin(p)
    /\ eof_conf' = ensure_directories
    /\ sdirs' = sdirs \cup {get_sessions_dir}
    /\ IF ~session_exists(sessions, name)
       THEN /\ UNCHANGED current_session_file
            /\ Exit(p, Result("switch", name, "NotFound", None, <<>>, <<>>))
       ELSE /\ current_session_file' = <<name>>
            /\ Exit(p, Result("switch", name, "ok", None, <<>>, <<>>))
    /\ UNCHANGED <<sessions, workspace_conf, workspaces_list, model_conf>>

\* mutant: the pointer is not cleared
delete_session_keeps_pointer(p, name) ==
    /\ Begin(p)
    /\ eof_conf' = ensure_directories
    /\ sdirs' = sdirs \cup {get_sessions_dir}
    /\ IF ~session_exists(sessions, name)
       THEN /\ UNCHANGED <<sessions, current_session_file>>
            /\ Exit(p, Result("delete", name, "NotFound", None, <<>>, <<>>))
       ELSE /\ sessions' = [sessions EXCEPT ![get_sessions_dir][name] = <<>>]
            /\ UNCHANGED current_session_file
            /\ Exit(p, Result("delete", name, "ok", get_current_session,
                              <<>>, <<>>))
    /\ UNCHANGED <<workspace_conf, workspaces_list, model_conf>>

\* -d sessionname
delete_session(p, name) ==
    /\ Begin(p)
    /\ eof_conf' = ensure_directories
    /\ sdirs' = sdirs \cup {get_sessions_dir}
    /\ IF ~session_exists(sessions, name)
       THEN /\ UNCHANGED <<sessions, current_session_file>>
            /\ Exit(p, Result("delete", name, "NotFound", None, <<>>, <<>>))
       ELSE /\ sessions' = [sessions EXCEPT ![get_sessions_dir][name] = <<>>]
            /\ current_session_file' =
                   IF get_current_session = name THEN <<>>
                   ELSE current_session_file
            /\ Exit(p, Result("delete", name, "ok", get_current_session,
                              <<>>, <<>>))
    /\ UNCHANGED <<workspace_conf, workspaces_list, model_conf>>

\* -l
list_sessions(p) ==
    /\ Begin(p)
    /\ eof_conf' = ensure_directories
    /\ sdirs' = sdirs \cup {get_sessions_dir}
    /\ Exit(p, Result("list", None, "ok", None, <<>>, <<>>))
    /\ UNCHANGED <<sessions, current_session_file, workspace_conf,
                   workspaces_list, model_conf>>

\* -n
show_current_session(p) ==
    LET e == ensure_current_session
    IN  /\ Begin(p)
        /\ eof_conf' = ensure_directories
        /\ sessions' = e.sessions
        /\ current_session_file' = e.current_session_file
        /\ sdirs' = e.sdirs
        /\ Exit(p, Result("name", None, "ok", e.name, <<>>, <<>>))
        /\ UNCHANGED <<workspace_conf, workspaces_list, model_conf>>

\* -a and -p
show_all(p) ==
    LET e == ensure_current_session
    IN  /\ Begin(p)
        /\ eof_conf' = ensure_directories
        /\ sessions' = e.sessions
        /\ current_session_file' = e.current_session_file
        /\ sdirs' = e.sdirs \cup {get_sessions_dir}
        /\ Exit(p, Result("all", None, "ok", e.name, <<>>,
                          <<load_session(e.sessions, e.name)>>))
        /\ UNCHANGED <<workspace_conf, workspaces_list, model_conf>>

\* -d
display_current_session(p) ==
    LET e == ensure_current_session
    IN  /\ Begin(p)
        /\ eof_conf' = ensure_directories
        /\ sessions' = e.sessions
        /\ current_session_file' = e.current_session_file
        /\ sdirs' = e.sdirs \cup {get_sessions_dir}
        /\ Exit(p, Result("display", None, "ok", e.name,
                          display_current_session_custom_format(
                              load_session(e.sessions, e.name).messages),
                          <<>>))
        /\ UNCHANGED <<workspace_conf, workspaces_list, model_conf>>

(* ------------------------ workspace commands -------------------------- *)
load_workspaces == IF workspaces_list # <<>> THEN workspaces_list[1] ELSE <<>>

InSeq(x, seq) == \E i \in 1..Len(seq) : seq[i] = x

\* mutant: the membership test of line 367 is missing
register_workspace_always_appends(ws_path) ==
    <<Append(load_workspaces, ws_path)>>

\* register_workspace: the content of WORKSPACES_LIST it leaves
register_workspace(ws_path) ==
    LET known == load_workspaces
    IN  IF ~InSeq(ws_path, known)
        THEN <<Append(known, ws_path)>>
        ELSE workspaces_list

\* -w workspace_path
set_workspace(p, ws_path) ==
    /\ Begin(p)
    /\ eof_conf' = ensure_directories
    /\ workspace_conf' = <<ws_path>>
    /\ workspaces_list' = register_workspace(ws_path)
    /\ Exit(p, Result("set_workspace", ws_path, "ok", None, <<>>, <<>>))
    /\ UNCHANGED <<sessions, sdirs, current_session_file, model_conf>>

\* -wc
clear_workspace(p) ==
    /\ Begin(p)
    /\ eof_conf' = ensure_directories
    /\ workspace_conf' = <<>>
    /\ Exit(p, Result("clear_workspace", None, "ok", None, <<>>, <<>>))
    /\ UNCHANGED <<sessions, sdirs, current_session_file, workspaces_list,
                   model_conf>>

\* -wl
list_workspaces(p) ==
    /\ Begin(p)
    /\ eof_conf' = ensure_directories
    /\ Exit(p, Result("list_workspaces", None, "ok", None, <<>>,
                      <<[current |-> get_workspace_path,
                         known |-> load_workspaces]>>))
    /\ UNCHANGED <<sessions, sdirs, current_session_file, workspace_conf,
                   workspaces_list, model_conf>>

(* -------------------------- model commands ---------------------------- *)
\* mutant: the session is saved anew, without the messages it had
set_model_resets_messages(p, modelname) ==
    LET e == ensure_current_session
    IN  /\ Begin(p)
        /\ eof_conf' = ensure_directories
        /\ sessions' = save_session(e.sessions, e.name,
                                    [model |-> modelname, messages |-> <<>>])
        /\ current_session_file' = e.current_session_file
        /\ sdirs' = e.sdirs \cup {get_sessions_dir}
        /\ Exit(p, Result("set_model", modelname, "ok", e.name, <<>>, <<>>))
        /\ UNCHANGED <<workspace_conf, workspaces_list, model_conf>>

\* -m modelname
set_model_for_current_session(p, modelname) ==
    LET e == ensure_current_session
        d == load_session(e.sessions, e.name)
    IN  /\ Begin(p)
        /\ eof_conf' = ensure_directories
        /\ sessions' = save_session(e.sessions, e.name,
                                    [d EXCEPT !.model = modelname])
        /\ current_session_file' = e.current_session_file
        /\ sdirs' = e.sdirs \cup {get_sessions_dir}
        /\ Exit(p, Result("set_model", modelname, "ok", e.name, <<>>, <<>>))
        /\ UNCHANGED <<workspace_conf, workspaces_list, model_conf>>

\* -ms modelname
set_global_default_model(p, modelname) ==
    /\ Begin(p)
    /\ eof_conf' = ensure_directories
    /\ model_conf' = <<modelname>>
    /\ Exit(p, Result("set_global_model", modelname, "ok", None, <<>>, <<>>))
    /\ UNCHANGED <<sessions, sdirs, current_session_file, workspace_conf,
                   workspaces_list>>

\* -mc
clear_global_default_model(p) ==
    /\ Begin(p)
    /\ eof_conf' = ensure_directories
    /\ model_conf' = <<>>
    /\ Exit(p, Result("clear_global_model", None, "ok", None, <<>>, <<>>))
    /\ UNCHANGED <<sessions, sdirs, current_session_file, workspace_conf,
                   workspaces_list>>

\* -e eofword
save_eof_word(p, w) ==
    /\ Begin(p)
    /\ eof_conf' = <<w>>
    /\ Exit(p, Result("set_eof", None, "ok", None, <<>>, <<>>))
    /\ UNCHANGED <<sessions, sdirs, current_session_file, workspace_conf,
                   workspaces_list, model_conf>>

(* --------------------------- file input ------------------------------- *)
\* -f filename, up to the model-client call; file is <<>> when the named
\* file does not exist, <<content>> otherwise
file_input_mode(p, file) ==
    LET e == ensure_current_session
        d == load_session(e.sessions, e.name)
    IN  /\ Begin(p)
        /\ eof_conf' = ensure_directories
        /\ sessions' = e.sessions
        /\ current_session_file' = e.current_session_file
        /\ IF file = <<>>
           THEN /\ sdirs' = e.sdirs
                /\ Exit(p, Result("file", None, "NotFound", e.name, <<>>, <<>>))
           ELSE /\ sdirs' = e.sdirs \cup {get_sessions_dir}
                /\ pc' = [pc EXCEPT ![p] = "FileDispatching"]
                /\ sessionname' = [sessionname EXCEPT ![p] = e.name]
                /\ data' = [data EXCEPT ![p] =
                       [d EXCEPT !.messages = Append(@, Msg("user", file[1]))]]
                /\ result' = [result EXCEPT ![p] =
                       Result("file", None, "running", e.name, <<>>, <<>>)]
                /\ UNCHANGED <<user_lines, no_question_asked_yet, eof_word,
                               line>>
        /\ UNCHANGED <<workspace_conf, workspaces_list, model_conf>>

\* query_gpt returned assistant_reply to file_input_mode
\* mutant: the session is saved before the reply is appended
file_input_reply_drops_reply(p, assistant_reply) ==
    /\ pc[p] = "FileDispatching"
    /\ sessions' = save_session(sessions, sessionname[p], data[p])
    /\ sdirs' = sdirs \cup {get_sessions_dir}
    /\ Exit(p, [result[p] EXCEPT !.status = "ok"])
    /\ UNCHANGED <<current_session_file, workspace_conf, workspaces_list,
                   model_conf, eof_conf, ncmds, nread>>

file_input_reply(p, assistant_reply) ==
    LET d == [data[p] EXCEPT !.messages =
                  Append(@, Msg("assistant", assistant_reply))]
    IN  /\ pc[p] = "FileDispatching"
        /\ sessions' = save_session(sessions, sessionname[p], d)
        /\ sdirs' = sdirs \cup {get_sessions_dir}
        /\ Exit(p, [result[p] EXCEPT !.status = "ok"])
        /\ UNCHANGED <<current_session_file, workspace_conf, workspaces_list,
                       model_conf, eof_conf, ncmds, nread>>

\* mutant: the session is saved on the way out
query_gpt_failed_saves(p, failure) ==
    /\ pc[p] \in {"Dispatching", "FileDispatching"}
    /\ sessions' = save_session(sessions, sessionname[p], data[p])
    /\ Exit(p, [result[p] EXCEPT !.status = failure, !.via = "exit"])
    /\ UNCHANGED <<sdirs, current_session_file, workspace_conf,
                   workspaces_list, model_conf, eof_conf, ncmds, nread>>

\* query_gpt ended the process: sys.exit(1) without OPENAI_API_KEY, or an
\* exception of the client that nothing catches
query_gpt_failed(p, failure) ==
    /\ pc[p] \in {"Dispatching", "FileDispatching"}
    /\ Exit(p, [result[p] EXCEPT !.status = failure, !.via = "exit"])
    /\ UNCHANGED <<sessions, sdirs, current_session_file, workspace_conf,
                   workspaces_list, model_conf, eof_conf, ncmds, nread>>

(* -------------------------- interactive mode -------------------------- *)
\* no options: main and interactive_mode up to the first input()
interactive_mode(p) ==
    LET e == ensure_current_session
    IN  /\ Begin(p)
        /\ eof_conf' = ensure_directories
        /\ sessions' = e.sessions
        /\ current_session_file' = e.current_session_file
        /\ sdirs' = e.sdirs \cup {get_sessions_dir}
        /\ pc' = [pc EXCEPT ![p] = "Reading"]
        /\ sessionname' = [sessionname EXCEPT ![p] = e.name]
        /\ data' = [data EXCEPT ![p] = load_session(e.sessions, e.name)]
        /\ user_lines' = [user_lines EXCEPT ![p] = <<>>]
        /\ no_question_asked_yet' = [no_question_asked_yet EXCEPT ![p] = TRUE]
        /\ eof_word' = [eof_word EXCEPT ![p] = load_eof_word]
        /\ line' = [line EXCEPT ![p] = <<>>]
            /\ result' = [result EXCEPT ![p] =
               Result("interactive", None, "running", e.name, <<>>, <<>>)]
        /\ UNCHANGED <<workspace_conf, workspaces_list, model_conf>>

\* the test of line 303: the line is treated as an empty line
is_blank(l) == Strip(l) = <<>>

\* the test of line 311: the line is the EOF word
is_sentinel(p, l) == Strip(l) = eof_word[p]

\* line 319
user_message(lines) == Join(lines)

\* lines 304-310: an empty line shows the history and returns while no
\* question was asked, and is skipped afterwards
empty_line(p) ==
    IF no_question_asked_yet[p]
    THEN /\ pc' = [pc EXCEPT ![p] = "Done"]
         /\ sessionname' = [sessionname EXCEPT ![p] = None]
         /\ data' = [data EXCEPT ![p] = NoData]
         /\ user_lines' = [user_lines EXCEPT ![p] = <<>>]
         /\ eof_word' = [eof_word EXCEPT ![p] = <<>>]
         /\ result' = [result EXCEPT ![p] =
                [@ EXCEPT !.status = "ok", !.via = "history",
                          !.out = display_current_session_custom_format(
                                      data[p].messages)]]
         /\ UNCHANGED no_question_asked_yet
    ELSE UNCHANGED <<pc, sessionname, data, user_lines,
                     no_question_asked_yet, eof_word, result>>

\* mutant: the test of line 315 is missing
eof_word_line_always_sends(p) ==
    /\ data' = [data EXCEPT ![p].messages =
           Append(@, Msg("user", user_message(user_lines[p])))]
    /\ pc' = [pc EXCEPT ![p] = "Dispatching"]
    /\ UNCHANGED <<sessionname, user_lines, no_question_asked_yet,
                   eof_word, result>>

\* lines 311-320: the EOF word ends the inner loop; nothing collected
\* restarts it, otherwise the user message is appended and query_gpt called
eof_word_line(p) ==
    IF Len(user_lines[p]) = 0
    THEN UNCHANGED <<pc, sessionname, data, user_lines,
                     no_question_asked_yet, eof_word, result>>
    ELSE /\ data' = [data EXCEPT ![p].messages =
                Append(@, Msg("user", user_message(user_lines[p])))]
         /\ pc' = [pc EXCEPT ![p] = "Dispatching"]
         /\ UNCHANGED <<sessionname, user_lines, no_question_asked_yet,
                        eof_word, result>>

\* line 313
other_line(p, l) ==
    /\ Len(user_lines[p]) < MaxLines
    /\ user_lines' = [user_lines EXCEPT ![p] = Append(@, l)]
    /\ UNCHANGED <<pc, sessionname, data, no_question_asked_yet, eof_word,
                   result>>

\* input() returned l: one pass of the inner loop
read_line(p, l) ==
    /\ pc[p] = "Reading"
    /\ nread < MaxInput
    /\ nread' = nread + 1
    /\ line' = [line EXCEPT ![p] = l]
    /\ IF is_blank(l) THEN empty_line(p)
       ELSE IF is_sentinel(p, l) THEN eof_word_line(p)
       ELSE other_line(p, l)
    /\ UNCHANGED <<sessions, sdirs, current_session_file, workspace_conf,
                   workspaces_list, model_conf, eof_conf, ncmds>>

\* mutant: the session is saved when input ends
read_eof_saves(p) ==
    /\ pc[p] = "Reading"
    /\ pc' = [pc EXCEPT ![p] = "Done"]
    /\ sessionname' = [sessionname EXCEPT ![p] = None]
    /\ data' = [data EXCEPT ![p] = NoData]
    /\ user_lines' = [user_lines EXCEPT ![p] = <<>>]
    /\ no_question_asked_yet' = [no_question_asked_yet EXCEPT ![p] = TRUE]
    /\ eof_word' = [eof_word EXCEPT ![p] = <<>>]
    /\ result' = [result EXCEPT ![p] = [@ EXCEPT !.status = "ok", !.via = "eof"]]
    /\ sessions' = save_session(sessions, sessionname[p], data[p])
    /\ UNCHANGED line
    /\ UNCHANGED <<sdirs, current_session_file, workspace_conf,
                   workspaces_list, model_conf, eof_conf, ncmds, nread>>

\* input() raised EOFError: line 302
read_eof(p) ==
    /\ pc[p] = "Reading"
    /\ pc' = [pc EXCEPT ![p] = "Done"]
    /\ sessionname' = [sessionname EXCEPT ![p] = None]
    /\ data' = [data EXCEPT ![p] = NoData]
    /\ user_lines' = [user_lines EXCEPT ![p] = <<>>]
    /\ no_question_asked_yet' = [no_question_asked_yet EXCEPT ![p] = TRUE]
    /\ eof_word' = [eof_word EXCEPT ![p] = <<>>]
    /\ result' = [result EXCEPT ![p] = [@ EXCEPT !.status = "ok", !.via = "eof"]]
    /\ UNCHANGED line
    /\ UNCHANGED <<sessions, sdirs, current_session_file, workspace_conf,
                   workspaces_list, model_conf, eof_conf, ncmds, nread>>

\* mutant: the session is saved before the reply is appended
interactive_reply_unsaved_reply(p, assistant_reply) ==
    LET d == [data[p] EXCEPT !.messages =
                  Append(@, Msg("assistant", assistant_reply))]
    IN  /\ pc[p] = "Dispatching"
        /\ data' = [data EXCEPT ![p] = d]
        /\ sessions' = save_session(sessions, sessionname[p], data[p])
        /\ sdirs' = sdirs \cup {get_sessions_dir}
        /\ no_question_asked_yet' = [no_question_asked_yet EXCEPT ![p] = FALSE]
        /\ user_lines' = [user_lines EXCEPT ![p] = <<>>]
        /\ pc' = [pc EXCEPT ![p] = "Reading"]
        /\ UNCHANGED <<sessionname, eof_word, line, nread, result,
                       current_session_file, workspace_conf, workspaces_list,
                       model_conf, eof_conf, ncmds>>

\* query_gpt returned assistant_reply to interactive_mode: lines 322-325,
\* and line 297 of the next pass of the outer loop
\* mutant: the reply is appended to the record as it is on disk
interactive_reply_merges(p, assistant_reply) ==
    LET d == [data[p] EXCEPT !.messages =
                  Append(@, Msg("assistant", assistant_reply))]
        n == Len(d.messages)
        merged == [d EXCEPT !.messages =
                      load_session(sessions, sessionname[p]).messages
                          \o SubSeq(d.messages, n - 1, n)]
    IN  /\ pc[p] = "Dispatching"
        /\ data' = [data EXCEPT ![p] = d]
        /\ sessions' = save_session(sessions, sessionname[p], merged)
        /\ sdirs' = sdirs \cup {get_sessions_dir}
        /\ no_question_asked_yet' = [no_question_asked_yet EXCEPT ![p] = FALSE]
        /\ user_lines' = [user_lines EXCEPT ![p] = <<>>]
        /\ pc' = [pc EXCEPT ![p] = "Reading"]
        /\ UNCHANGED <<sessionname, eof_word, line, nread, result,
                       current_session_file, workspace_conf, workspaces_list,
                       model_conf, eof_conf, ncmds>>

interactive_reply(p, assistant_reply) ==
    LET d == [data[p] EXCEPT !.messages =
                  Append(@, Msg("assistant", assistant_reply))]
    IN  /\ pc[p] = "Dispatching"
        /\ data' = [data EXCEPT ![p] = d]
        /\ sessions' = save_session(sessions, sessionname[p], d)
        /\ sdirs' = sdirs \cup {get_sessions_dir}
        /\ no_question_asked_yet' = [no_question_asked_yet EXCEPT ![p] = FALSE]
        /\ user_lines' = [user_lines EXCEPT ![p] = <<>>]
        /\ pc' = [pc EXCEPT ![p] = "Reading"]
        /\ UNCHANGED <<sessionname, eof_word, line, nread, result,
                       current_session_file, workspace_conf, workspaces_list,
                       model_conf, eof_conf, ncmds>>

(* ------------------------------ start --------------------------------- *)
SystemMsg == Msg("system", <<"s">>)
UserMsg == Msg("user", <<"a", " ">>)
AssistantMsg == Msg("assistant", <<"r">>)

NoSessions == [d \in Dirs |-> [n \in SessionArgs |-> <<>>]]

\* What the default sessions directory may hold when the behaviour starts:
\* nothing (a fresh install); a record s1 in the legacy bare-list shape, or
\* without a model key, left by an earlier version; a master_session with
\* one exchange and its own model, left by earlier runs of this script.
InitialSessions ==
    { NoSessions,
      [NoSessions EXCEPT
          ![DefaultDir]["s1"] = <<ListRecord(<<SystemMsg, UserMsg, AssistantMsg>>)>>],
      [NoSessions EXCEPT
          ![DefaultDir]["s1"] = <<NoModelRecord(<<UserMsg, AssistantMsg>>)>>],
      [NoSessions EXCEPT
          ![DefaultDir][master_name] =
              <<DictRecord("m3", <<UserMsg, AssistantMsg>>)>>] }

LegacySessions ==
    [NoSessions EXCEPT
        ![DefaultDir]["s1"] = <<ListRecord(<<SystemMsg, UserMsg, AssistantMsg>>)>>]

\* The workspace setting when the behaviour starts: unset, or, beside the
\* legacy record, workspace w1 selected and registered by an earlier -w w1.
InitialWorkspaces ==
    IF sessions = LegacySessions THEN {<<>>, <<"w1">>} ELSE {<<>>}


\* The pointer when the behaviour starts: unset, or, beside the legacy
\* record, naming it after an earlier -s s1.
InitialPointers ==
    IF sessions = LegacySessions THEN {<<>>, <<"s1">>} ELSE {<<>>}

Init ==
    /\ sessions \in InitialSessions
    /\ sdirs = IF sessions = NoSessions THEN {} ELSE {DefaultDir}
    /\ current_session_file \in InitialPointers
    /\ workspace_conf \in InitialWorkspaces
    /\ workspaces_list = IF workspace_conf = <<>> THEN <<>> ELSE << workspace_conf >>
    /\ model_conf = <<>>
    /\ eof_conf = IF sessions = NoSessions THEN <<>> ELSE <<DEFAULT_EOF>>
    /\ pc = [p \in Procs |-> "Idle"]
    /\ sessionname = [p \in Procs |-> None]
    /\ data = [p \in Procs |-> NoData]
    /\ user_lines = [p \in Procs |-> <<>>]
    /\ no_question_asked_yet = [p \in Procs |-> TRUE]
    /\ eof_word = [p \in Procs |-> <<>>]
    /\ line = [p \in Procs |-> <<>>]
    /\ nread = 0
    /\ result = [p \in Procs |-> Result("none", None, "ok", None, <<>>, <<>>)]
    /\ ncmds = 0

\* the commands and steps of invocation p
Step(p) ==
    \/ \E name \in SessionArgs : create_session(p, name)
    \/ \E name \in SessionArgs : switch_session(p, name)
    \/ \E name \in SessionArgs : delete_session(p, name)
    \/ list_sessions(p)
    \/ show_current_session(p)
    \/ show_all(p)
    \/ display_current_session(p)
    \/ \E ws \in Workspaces : set_workspace(p, ws)
    \/ clear_workspace(p)
    \/ list_workspaces(p)
    \/ \E m \in SessionModelArgs : set_model_for_current_session(p, m)
    \/ \E m \in GlobalModelArgs : set_global_default_model(p, m)
    \/ clear_global_default_model(p)
    \/ \E w \in EofArgs : save_eof_word(p, w)
    \/ \E file \in InputFiles : file_input_mode(p, file)
    \/ \E r \in Replies : file_input_reply(p, r)
    \/ \E f \in Failures : query_gpt_failed(p, f)
    \/ interactive_mode(p)
    \/ \E l \in InputLines : read_line(p, l)
    \/ read_eof(p)
    \/ \E r \in Replies : interactive_reply(p, r)

\* commands run one at a time
Next == \E p \in SeqProcs : Step(p)

Spec == Init /\ [][Next]_vars

\* input() returns or raises: stdin is a finite sequence of lines followed
\* by end-of-input
Read(p) == read_eof(p) \/ \E l \in InputLines : read_line(p, l)

\* query_gpt returns to interactive_mode or ends the process
Answer(p) ==
    \/ \E r \in Replies : interactive_reply(p, r)
    \/ \E f \in Failures : query_gpt_failed(p, f)

\* the interactive loop, and the commands that choose what it starts from:
\* the session, the sessions directory and the EOF word
LoopStep(p) ==
    \/ \E name \in SessionArgs : switch_session(p, name)
    \/ \E ws \in Workspaces : set_workspace(p, ws)
    \/ \E w \in EofArgs : save_eof_word(p, w)
    \/ interactive_mode(p)
    \/ \E l \in InputLines : read_line(p, l)
    \/ read_eof(p)
    \/ \E r \in Replies : interactive_reply(p, r)
    \/ \E f \in Failures : query_gpt_failed(p, f)

LoopNext == \E p \in SeqProcs : LoopStep(p)

\* a started invocation runs on: the script is one synchronous thread, so
\* a read that can return does, and so does the call of the model client
LiveSpec ==
    /\ Init
    /\ [][LoopNext]_vars
    /\ \A p \in SeqProcs : WF_vars(Read(p)) /\ WF_vars(Answer(p))

\* two invocations of the script at once, each in interactive mode or in
\* file mode: a process per invocation, the files shared, and a process
\* switch possible wherever the script waits for input or for the reply
ConcStep(p) ==
    \/ interactive_mode(p)
    \/ \E l \in InputLines : read_line(p, l)
    \/ read_eof(p)
    \/ \E r \in Replies : interactive_reply(p, r)
    \/ \E file \in InputFiles : file_input_mode(p, file)
    \/ \E r \in Replies : file_input_reply(p, r)
    \/ \E f \in Failures : query_gpt_failed(p, f)

ConcNext == \E p \in Procs : ConcStep(p)

ConcSpec == Init /\ [][ConcNext]_vars

(* ====================================================================== *)
(*                              properties                                *)
(* ====================================================================== *)
\* the record of session name in the sessions directory resolved now
Persisted(name) == sessions[get_sessions_dir][name]
PersistedMessages(name) ==
    IF Persisted(name) = <<>> THEN <<>> ELSE Persisted(name)[1].messages

\* how a step shows which handler took it
CommandStep == ncmds' = ncmds + 1
ReadLineStep(p) == pc[p] = "Reading" /\ nread' = nread + 1
ReadEofStep(p) == pc[p] = "Reading" /\ result'[p].via = "eof"
ReplyStep(p) == pc[p] = "Dispatching" /\ pc'[p] = "Reading"
FailedStep(p) ==
    /\ pc[p] \in {"Dispatching", "FileDispatching"}
    /\ result'[p].status \in Failures

Blank(l) == \A i \in 1..Len(l) : l[i] \in Whitespace

ConfigUnchanged ==
    UNCHANGED <<current_session_file, workspace_conf, workspaces_list,
                model_conf, eof_conf>>

\* C1: in the interactive loop a successful reply R to the buffered lines
\* L1..Ln leaves the persisted record of the session with the messages it
\* had before followed by exactly user: L1\n...\nLn and assistant: R, sets
\* any_query_sent (clears no_question_asked_yet) and empties the buffer;
\* a blank line read afterwards changes nothing but the read position: no
\* history is shown and the loop goes on.
C1_ExchangePersisted ==
    [][\A p \in Procs :
        /\ ReplyStep(p) =>
              LET M == PersistedMessages(sessionname[p])
                  after == sessions'[get_sessions_dir][sessionname[p]]
              IN  /\ user_lines[p] # <<>>
                  /\ after # <<>>
                  /\ Len(after[1].messages) = Len(M) + 2
                  /\ SubSeq(after[1].messages, 1, Len(M)) = M
                  /\ after[1].messages[Len(M) + 1] =
                         Msg("user", Join(user_lines[p]))
                  /\ after[1].messages[Len(M) + 2].role = "assistant"
                  /\ after[1].messages[Len(M) + 2].content \in Replies
                  /\ no_question_asked_yet'[p] = FALSE
                  /\ user_lines'[p] = <<>>
        /\ (ReadLineStep(p) /\ ~no_question_asked_yet[p] /\ Blank(line'[p])) =>
              /\ pc'[p] = "Reading"
              /\ UNCHANGED <<result, data, user_lines, no_question_asked_yet,
                             sessions>>
              /\ ConfigUnchanged
    ]_vars

\* C1 witness: a session that held two messages holds four after one
\* exchange, and a blank line was read after it with the loop still reading
C1_Witness ==
    \E p \in Procs :
        /\ pc[p] = "Reading"
        /\ ~no_question_asked_yet[p]
        /\ Blank(line[p])
        /\ Len(PersistedMessages(sessionname[p])) = 4

\* C2: a failed model-client call (missing credential or upstream failure)
\* in the interactive loop or the file-input command ends the command
\* without a save: every file is as it was before the call, and the user
\* message appended in memory is not in the persisted record.
C2_FailureLeavesDisk ==
    /\ [][\A p \in Procs :
            FailedStep(p) =>
               /\ UNCHANGED <<sessions, sdirs>>
               /\ ConfigUnchanged
               /\ pc'[p] = "Done"
               /\ result'[p].via = "exit"
       ]_vars
    /\ [](\A p \in Procs :
            pc[p] \in {"Dispatching", "FileDispatching"} =>
               /\ data[p].messages # <<>>
               /\ data[p].messages[Len(data[p].messages)].role = "user"
               /\ PersistedMessages(sessionname[p]) =
                      SubSeq(data[p].messages, 1, Len(data[p].messages) - 1))

\* C2 witness: an interactive invocation ended by a failed call after the
\* session already held messages
C2_Witness ==
    \E p \in Procs :
        /\ result[p].cmd = "interactive"
        /\ result[p].status \in Failures
        /\ pc[p] = "Done"
        /\ Len(PersistedMessages(result[p].sess)) = 2

\* C3: in the interactive loop a blank line read while the buffer is not
\* empty is appended verbatim to the buffer and the loop keeps reading,
\* whatever any_query_sent is.
C3_BlankLineBuffered ==
    [][\A p \in Procs :
        (ReadLineStep(p) /\ user_lines[p] # <<>> /\ Blank(line'[p])) =>
            /\ user_lines'[p] = Append(user_lines[p], line'[p])
            /\ pc'[p] = "Reading"
    ]_vars

\* the transcript of a message list: system messages left out, the others
\* in order, each under its marker with its content trimmed
Transcript(messages) ==
    LET shown == SelectSeq(messages, LAMBDA m : m.role # "system")
    IN  [i \in 1..Len(shown) |->
            [marker |-> IF shown[i].role = "assistant" THEN "[GPT]" ELSE "[USER]",
             text |-> Strip(shown[i].content)]]

\* C4: with the pointer set to an existing session, a blank line read with
\* an empty buffer before any query prints the transcript of that session's
\* messages (system messages skipped, order kept) and ends the loop; no
\* file is written: session records, pointer and config are unchanged.
C4_BlankShowsHistory ==
    [][\A p \in Procs :
        ( /\ ReadLineStep(p)
          /\ user_lines[p] = <<>>
          /\ no_question_asked_yet[p]
          /\ Blank(line'[p])
          /\ get_current_session # None
          /\ session_exists(sessions, get_current_session) ) =>
            /\ result'[p].out = Transcript(PersistedMessages(get_current_session))
            /\ pc'[p] = "Done"
            /\ UNCHANGED <<sessions, sdirs>>
            /\ ConfigUnchanged
    ]_vars

\* C4 witness: the loop ended on a blank line with a two-block transcript
\* of a session whose record holds three messages, one of them system
C4_Witness ==
    \E p \in Procs :
        /\ pc[p] = "Done"
        /\ result[p].cmd = "interactive"
        /\ result[p].via = "history"
        /\ Len(result[p].out) = 2
        /\ Len(PersistedMessages(result[p].sess)) = 3
        /\ get_current_session = result[p].sess

\* C5: a sentinel line read with an empty buffer is a no-op (no call of the
\* model client, nothing appended or persisted, any_query_sent unchanged,
\* the loop keeps reading); and whenever the interactive loop calls the
\* model client, the user message it just appended is not empty.
C5_EmptyQueryNeverSent ==
    /\ [][\A p \in Procs :
            ( /\ ReadLineStep(p)
              /\ ~Blank(line'[p])
              /\ Strip(line'[p]) = eof_word[p]
              /\ user_lines[p] = <<>> ) =>
                /\ pc'[p] = "Reading"
                /\ UNCHANGED <<data, user_lines, no_question_asked_yet, result,
                               sessions, sdirs>>
                /\ ConfigUnchanged
       ]_vars
    /\ [](\A p \in Procs :
            pc[p] = "Dispatching" =>
                /\ data[p].messages # <<>>
                /\ data[p].messages[Len(data[p].messages)].role = "user"
                /\ data[p].messages[Len(data[p].messages)].content # <<>>)

\* C5 witness: the sentinel was read before any query, and the loop is
\* still reading with nothing sent
C5_Witness ==
    \E p \in Procs :
        /\ pc[p] = "Reading"
        /\ Strip(line[p]) = eof_word[p]
        /\ no_question_asked_yet[p]
        /\ data[p].messages = PersistedMessages(sessionname[p])

\* C6: end-of-input on a read ends the loop at once from any state of the
\* loop: the model client is not called and no file changes, so buffered
\* lines are dropped; and since stdin is finite, a loop that is reading
\* always comes to its end (by return, or by the exit of a failed call).
C6_EndOfInputEndsLoop ==
    /\ [][\A p \in Procs :
            ReadEofStep(p) =>
                /\ pc'[p] = "Done"
                /\ UNCHANGED <<sessions, sdirs>>
                /\ ConfigUnchanged
       ]_vars
    /\ [](\A p \in SeqProcs : pc[p] = "Reading" => ENABLED read_eof(p))
    /\ \A p \in SeqProcs : (pc[p] = "Reading") ~> (pc[p] = "Done")

\* C6 witness: end-of-input came right after an ordinary line, which was
\* in the buffer and is in no record
C6_Witness ==
    \E p \in Procs :
        /\ pc[p] = "Done"
        /\ result[p].via = "eof"
        /\ line[p] = <<"b", " ">>
        /\ PersistedMessages(result[p].sess) = <<>>

\* C7: delete(X) of an existing session X removes the record of X (and no
\* other); it clears the pointer when the pointer's value is X and leaves
\* the pointer file alone otherwise (unset and dangling included).
C7_DeleteClearsOwnPointer ==
    [][\A p \in Procs :
        (CommandStep /\ result'[p].cmd = "delete") =>
            LET X == result'[p].arg
            IN  IF Persisted(X) # <<>>
                THEN /\ result'[p].status = "ok"
                     /\ sessions' = [sessions EXCEPT ![get_sessions_dir][X] = <<>>]
                     /\ get_current_session = X => current_session_file' = <<>>
                     /\ get_current_session # X =>
                            current_session_file' = current_session_file
                ELSE result'[p].status = "NotFound"
    ]_vars

\* C7 witness: the session deleted was the current one, and the pointer is
\* now unset
C7_Witness ==
    \E p \in Procs :
        /\ result[p].cmd = "delete"
        /\ result[p].status = "ok"
        /\ result[p].sess = result[p].arg
        /\ get_current_session = None

\* the commands that call ensure_current_session and then only read
EnsureOnly == {"name", "all", "display", "interactive", "file"}

\* C8: ensure() with no pointer set leaves a master_session record (a new
\* one with the default model and no messages when there was none), creates
\* no other record, sets the pointer to master_session and returns it;
\* with the pointer set it returns the pointer's value and writes nothing,
\* so repeated calls return the same name and change nothing.
C8_EnsureIdempotent ==
    [][\A p \in Procs :
        (CommandStep /\ result'[p].cmd \in EnsureOnly) =>
            IF get_current_session = None
            THEN /\ result'[p].sess = master_name
                 /\ current_session_file' = <<master_name>>
                 /\ sessions'[get_sessions_dir][master_name] # <<>>
                 /\ Persisted(master_name) = <<>> =>
                        sessions'[get_sessions_dir][master_name] =
                            <<DictRecord(get_default_model, <<>>)>>
                 /\ \A d \in Dirs, n \in SessionArgs :
                        (d # get_sessions_dir \/ n # master_name) =>
                            sessions'[d][n] = sessions[d][n]
            ELSE /\ result'[p].sess = get_current_session
                 /\ UNCHANGED <<sessions, current_session_file, workspace_conf,
                                workspaces_list, model_conf>>
                 /\ result'[p].cmd = "name" => UNCHANGED sdirs
    ]_vars

\* C8 witness: after two commands on a fresh install the second, -n, gave
\* master_session, and the one record there is is the new master_session
C8_Witness ==
    \E p \in Procs :
        /\ ncmds = 2
        /\ result[p].cmd = "name"
        /\ result[p].sess = master_name
        /\ get_current_session = master_name
        /\ sessions = [NoSessions EXCEPT ![DefaultDir][master_name] =
                           <<DictRecord(DEFAULT_MODEL, <<>>)>>]

\* C9: when the pointer is unset and a master_session record exists in the
\* resolved sessions directory, ensure() sets the pointer to master_session
\* and leaves every record, that one's messages and model included, as it
\* was.
C9_EnsureNeverOverwrites ==
    [][\A p \in Procs :
        ( /\ CommandStep
          /\ result'[p].cmd \in EnsureOnly
          /\ get_current_session = None
          /\ Persisted(master_name) # <<>> ) =>
            /\ UNCHANGED sessions
            /\ current_session_file' = <<master_name>>
            /\ result'[p].sess = master_name
    ]_vars

\* C9 witness: ensure ran on a master_session with one exchange and its
\* own model; the record is intact and is the current session
C9_Witness ==
    \E p \in Procs :
        /\ result[p].cmd \in EnsureOnly
        /\ result[p].sess = master_name
        /\ get_current_session = master_name
        /\ Persisted(master_name) = <<DictRecord("m3", <<UserMsg, AssistantMsg>>)>>

\* C10: a record comes into existence only through create(name), or
\* through ensure's creation of master_session when no pointer is set: no
\* other step turns a name without a record into a name with one.
C10_OnlyCreateOrEnsure ==
    [][\A d \in Dirs, n \in SessionArgs :
        (sessions[d][n] = <<>> /\ sessions'[d][n] # <<>>) =>
            /\ CommandStep
            /\ \/ \E p \in Procs : /\ pc'[p] = "Done"
                                   /\ result'[p].cmd = "create"
                                   /\ result'[p].arg = n
                                   /\ result'[p].status = "ok"
               \/ n = master_name /\ get_current_session = None
    ]_vars


(* ---------------- lookups that fail, and creation --------------------- *)
\* C11: -f with a file that does not exist fails with NotFound and leaves
\* every session record and the current-session pointer as they were,
\* whether or not the pointer was set before.
C11_MissingFileMutatesNothing ==
    [][\A p \in Procs :
        (CommandStep /\ result'[p].cmd = "file" /\ result'[p].status = "NotFound")
            => UNCHANGED <<sessions, current_session_file>>
    ]_vars

\* C12: -s name and -d name on a name with no record fail with NotFound,
\* and leave the pointer and every record as they were; -s name on a name
\* with a record makes name the current session and changes no record.
C12_SwitchAndDeleteLookups ==
    [][\A p \in Procs :
        (CommandStep /\ result'[p].cmd \in {"switch", "delete"}) =>
            LET name == result'[p].arg
            IN  IF Persisted(name) = <<>>
                THEN /\ result'[p].status = "NotFound"
                     /\ UNCHANGED <<sessions, current_session_file>>
                ELSE result'[p].cmd = "switch" =>
                        /\ result'[p].status = "ok"
                        /\ get_current_session' = name
                        /\ UNCHANGED sessions
    ]_vars

\* C13: -c name on a name that has a record fails with AlreadyExists, and
\* the record (its model and its messages) and the pointer stay as they were.
C13_CreateExistingFails ==
    [][\A p \in Procs :
        (CommandStep /\ result'[p].cmd = "create"
                     /\ Persisted(result'[p].arg) # <<>>) =>
            /\ result'[p].status = "AlreadyExists"
            /\ UNCHANGED <<sessions, current_session_file>>
    ]_vars

C13_Witness ==
    /\ result["p1"].cmd = "create"
    /\ result["p1"].arg = master_name
    /\ result["p1"].status = "AlreadyExists"
    /\ Persisted(master_name) = <<DictRecord("m3", <<UserMsg, AssistantMsg>>)>>
    /\ get_current_session = None

\* C14: when name has no record, -c name followed by a load of name yields
\* the global default model of the time of the creation (model.conf if it
\* is set, else the built-in model) and no messages.
C14_CreateThenLoad ==
    [][\A p \in Procs :
        (CommandStep /\ result'[p].cmd = "create"
                     /\ Persisted(result'[p].arg) = <<>>) =>
            /\ result'[p].status = "ok"
            /\ load_session(sessions', result'[p].arg) =
                   [model |-> IF model_conf = <<>> THEN DEFAULT_MODEL
                                                   ELSE model_conf[1],
                    messages |-> <<>>]
    ]_vars

C14_Witness ==
    /\ result["p1"].cmd = "create"
    /\ result["p1"].arg = " s1"
    /\ result["p1"].status = "ok"
    /\ model_conf = <<"m1">>
    /\ load_session(sessions, " s1") = [model |-> "m1", messages |-> <<>>]


(* ------------------------ workspace registry -------------------------- *)
NoDuplicates(seq) ==
    \A i, j \in 1..Len(seq) : seq[i] = seq[j] => i = j

\* C15: the registry of known workspaces holds each path at most once, in
\* the order of first insertion: -w P appends P when P is not registered
\* and leaves the registry as it was when P is registered, and no other
\* command (-wc and -wl among them) changes the registry.
C15_RegistryFirstInsertionOrder ==
    [][/\ NoDuplicates(load_workspaces')
       /\ \A p \in Procs :
            IF CommandStep /\ result'[p].cmd = "set_workspace"
            THEN LET P == result'[p].arg
                 IN  load_workspaces' =
                        IF InSeq(P, load_workspaces)
                        THEN load_workspaces
                        ELSE Append(load_workspaces, P)
            ELSE result'[p] # result[p] => load_workspaces' = load_workspaces
       /\ result' = result => load_workspaces' = load_workspaces
    ]_vars

C15_Witness ==
    /\ result["p1"].cmd = "set_workspace"
    /\ result["p1"].arg = "w1"
    /\ ncmds = 2
    /\ load_workspaces = <<"w1", "w2">>


(* ------------------------- legacy records ----------------------------- *)
LoadOnly == {"all", "display", "interactive"}

\* C16: a command that loads a record stored as a bare message list gets
\* the stored list unchanged as messages and the current global default as
\* model, and the load writes nothing: the record keeps the legacy shape.
C16_LegacyLoad ==
    [][\A p \in Procs :
        (CommandStep /\ result'[p].cmd \in LoadOnly) =>
            LET n == result'[p].sess
                rec == Persisted(n)
                loaded == [model |-> IF model_conf = <<>> THEN DEFAULT_MODEL
                                                          ELSE model_conf[1],
                           messages |-> rec[1].messages]
            IN  (rec # <<>> /\ rec[1].kind = "list") =>
                    /\ sessions' = sessions
                    /\ result'[p].cmd = "all" => result'[p].dump = <<loaded>>
                    /\ result'[p].cmd = "display" =>
                           result'[p].out = Transcript(rec[1].messages)
                    /\ result'[p].cmd = "interactive" => data'[p] = loaded
    ]_vars

C16_Witness ==
    /\ result["p1"].cmd = "all"
    /\ result["p1"].sess = "s1"
    /\ Persisted("s1") = <<ListRecord(<<SystemMsg, UserMsg, AssistantMsg>>)>>
    /\ result["p1"].dump =
           <<[model |-> "m1", messages |-> <<SystemMsg, UserMsg, AssistantMsg>>]>>


(* ------------------------- message history ---------------------------- *)
IsPrefix(a, b) == Len(a) <= Len(b) /\ SubSeq(b, 1, Len(a)) = a

\* C17: messages are append-only: while a session's record is not deleted,
\* each step leaves a message list that has the list before it as a prefix;
\* -m changes the model of the current session and nothing else: its
\* messages and every other record stay as they were.
C17_AppendOnly ==
    [][/\ \A d \in Dirs, n \in SessionArgs :
            (sessions[d][n] # <<>> /\ sessions'[d][n] # <<>>) =>
                IsPrefix(sessions[d][n][1].messages, sessions'[d][n][1].messages)
       /\ \A p \in Procs :
            (CommandStep /\ result'[p].cmd = "set_model") =>
                LET n == result'[p].sess
                IN  /\ sessions'[get_sessions_dir][n] =
                           <<DictRecord(result'[p].arg, PersistedMessages(n))>>
                    /\ \A d \in Dirs, m \in SessionArgs :
                           (d # get_sessions_dir \/ m # n) =>
                               sessions'[d][m] = sessions[d][m]
    ]_vars

C17_Witness ==
    /\ result["p1"].cmd = "set_model"
    /\ result["p1"].sess = master_name
    /\ Persisted(master_name) = <<DictRecord("m2", <<UserMsg, AssistantMsg>>)>>


(* ---------------------- workspace-scoped store ------------------------ *)
\* the sessions directory of the workspace that is configured when a step
\* is taken
ConfiguredDir ==
    IF workspace_conf = <<>> THEN DefaultDir ELSE workspace_conf[1]

\* C18: every step reads and writes session records in the directory of
\* the workspace configured at that time only: the records of every other
\* directory stay as they were, no other directory is created, -c tests
\* existence and -a loads in that directory, and after -wc that directory
\* is the default one.
C18_ResolvedDirOnly ==
    [][/\ \A d \in Dirs \ {ConfiguredDir} : sessions'[d] = sessions[d]
       /\ sdirs' \subseteq sdirs \cup {ConfiguredDir}
       /\ \A p \in Procs :
            /\ (CommandStep /\ result'[p].cmd = "create") =>
                   /\ result'[p].status = "AlreadyExists"
                          <=> sessions[ConfiguredDir][result'[p].arg] # <<>>
                   /\ sessions'[ConfiguredDir][result'[p].arg] # <<>>
            /\ (CommandStep /\ result'[p].cmd = "delete") =>
                   /\ result'[p].status = "NotFound"
                          <=> sessions[ConfiguredDir][result'[p].arg] = <<>>
                   /\ sessions'[ConfiguredDir][result'[p].arg] = <<>>
            /\ (CommandStep /\ result'[p].cmd = "all") =>
                   LET rec == sessions'[ConfiguredDir][result'[p].sess]
                   IN  result'[p].dump[1].messages =
                           IF rec = <<>> THEN <<>> ELSE rec[1].messages
            /\ (CommandStep /\ result'[p].cmd = "clear_workspace") =>
                   ConfiguredDir' = DefaultDir
    ]_vars

C18_Witness ==
    /\ workspace_conf = <<"w1">>
    /\ result["p1"].cmd = "create"
    /\ result["p1"].arg = "s1"
    /\ result["p1"].status = "ok"
    /\ sessions["w1"]["s1"] = <<DictRecord(DEFAULT_MODEL, <<>>)>>
    /\ sessions[DefaultDir] = LegacySessions[DefaultDir]
    /\ sessions["w2"] = NoSessions["w2"]


(* ------------------------ concurrent invocations ---------------------- *)
FileReplyStep(p) == pc[p] = "FileDispatching" /\ result'[p].status = "ok"

\* C19: with two invocations at once the last writer wins: a reply step
\* replaces the record by the list the writer loaded with the writer's own
\* exchanges, whatever another invocation has saved since that load; in
\* the state C19_Witness, reached after both invocations loaded the same
\* session and each completed an exchange, the record holds the pair of
\* the later writer and the pair the other persisted is lost.
C19_LastWriterWins ==
    [][\A p \in Procs :
        (ReplyStep(p) \/ FileReplyStep(p)) =>
            LET new == sessions'[get_sessions_dir][sessionname[p]]
            IN  /\ new # <<>>
                /\ Len(new[1].messages) = Len(data[p].messages) + 1
                /\ SubSeq(new[1].messages, 1, Len(data[p].messages))
                       = data[p].messages
                /\ new[1].messages[Len(new[1].messages)].role = "assistant"
    ]_vars

C19_Witness ==
    /\ pc["p1"] = "Reading" /\ ~no_question_asked_yet["p1"]
    /\ sessionname["p1"] = master_name
    /\ result["p1"].status = "running"
    /\ data["p1"].messages =
           <<UserMsg, AssistantMsg, Msg("user", <<"a">>), AssistantMsg>>
    /\ result["p2"].cmd = "file" /\ result["p2"].status = "ok"
    /\ result["p2"].sess = master_name
    /\ PersistedMessages(master_name) =
           <<UserMsg, AssistantMsg, Msg("user", <<>>), AssistantMsg>>


(* ------------------------- shape of a history ------------------------- *)
Alternates(messages) ==
    /\ Len(messages) % 2 = 0
    /\ \A i \in 1..Len(messages) :
           messages[i].role = IF i % 2 = 1 THEN "user" ELSE "assistant"

\* C20: with commands run one at a time, the message list of a record made
\* by the script has even length and alternates user, assistant, ...: a
\* record that a step brings into existence has such a list, and a step
\* that changes a record with such a list leaves such a list.
C20_HistoryAlternates ==
    [][\A d \in Dirs, n \in SessionArgs :
        (/\ sessions'[d][n] # <<>>
         /\ sessions[d][n] # <<>> => Alternates(sessions[d][n][1].messages))
            => Alternates(sessions'[d][n][1].messages)
    ]_vars

C20_Witness ==
    /\ result["p1"].cmd = "interactive"
    /\ result["p1"].via = "eof"
    /\ sessions[DefaultDir][master_name] =
           <<DictRecord(DEFAULT_MODEL, <<Msg("user", <<"a">>), AssistantMsg>>)>>
    /\ sessions[DefaultDir]["s1"] = <<>>

====
